---- MODULE Spec2Model ----
(***************************************************************************)
(* Model of the telegram-gemini-bot chunking and streaming code            *)
(* (src/main.py): split_text_naturally, stream_text_response and           *)
(* stream_response.                                                        *)
(*                                                                         *)
(* Texts are finite sequences of one-character strings over a three        *)
(* letter alphabet: "a" stands for every character that is neither         *)
(* whitespace nor in the punctuation set (letters, digits and also the     *)
(* period, which the source's set does not contain), " " for whitespace    *)
(* and "?" for the members of the punctuation set.  The length limits      *)
(* 4096 and 100 and the fixed notices are scaled down to this alphabet.    *)
(***************************************************************************)
EXTENDS Integers, Sequences, FiniteSets, TLC

Chars == {"a", " ", "?"}

\* ---- bounds -------------------------------------------------------------
MaxTextLen == 7        \* longest text handed to split_text_naturally
MaxMaxLength == 4      \* largest max_length argument tried
MaxFragments == 3      \* fragments one generation call may yield
MaxFragLen == 3        \* longest single fragment
MaxStreamLen == 6      \* longest generated reply (all fragments together)
MaxRequests == 2       \* requests handled in one run of the history model

\* ---- program constants, scaled to the alphabet -----------------------------
MaxLength == 4         \* default max_length of split_text_naturally (4096)
FlushThreshold == 3    \* `len(buffer) >= 100` of the streaming loops
MAX_HISTORY == 10      \* config.py: MAX_HISTORY

TEXT_PROCESSING_MSG == << "a" >>               \* "Thinking..."
TEXT_ERROR_MSG == << "a", "?" >>               \* "I got stuck ... ask again?"
MEDIA_UPLOADING_MSG == << "a", " ", "a" >>     \* "Uploading your file..."
MEDIA_PROCESSING_MSG == << "a", "a", "a" >>    \* "Processing your request..."
MEDIA_ERROR_MSG == << "a", "a", "?" >>         \* "Something went off track. ..."
UPLOAD_ERROR_MSG == << "?", "a" >>             \* "I couldn't upload your file. ..."
NO_RESPONSE_MSG == << "a", "?", "a" >>         \* "I couldn't generate a response for that."

\* ---- Python string primitives --------------------------------------------
\* str.isspace() for one character
IsSpace(c) == c = " "

\* the test `char.isspace() or char in "।?!,;:\n"` of split_text_naturally
IsBoundary(c) == IsSpace(c) \/ c = "?"

\* the test `buffer[-1] in " ।?!,;:\n"` of the streaming loops
IsFlushChar(c) == c = " " \/ c = "?"

\* s[:n] with Python's clamping
Take(s, n) == SubSeq(s, 1, IF n < Len(s) THEN n ELSE Len(s))

\* s[n:] with Python's clamping
Drop(s, n) == IF n >= Len(s) THEN << >> ELSE SubSeq(s, n + 1, Len(s))

RECURSIVE LStrip(_)
LStrip(s) == IF s # << >> /\ IsSpace(s[1]) THEN LStrip(Drop(s, 1)) ELSE s

RECURSIVE RStrip(_)
RStrip(s) ==
    IF s # << >> /\ IsSpace(s[Len(s)]) THEN RStrip(Take(s, Len(s) - 1)) ELSE s

\* str.strip()
Strip(s) == RStrip(LStrip(s))

RECURSIVE Concat(_)
Concat(ss) == IF ss = << >> THEN << >> ELSE ss[1] \o Concat(Tail(ss))

Texts(n) == UNION {[1..k -> Chars] : k \in 0..n}

\* ---- split_text_naturally with the hard cut discarding the overflow -----------
\* (`current_chunk = ""` in place of `current_chunk[max_length:]`)
RECURSIVE SplitScanHardCutLoses(_, _, _, _, _, _)
SplitScanHardCutLoses(text, max_length, i, cuts, current_chunk, last_break) ==
    IF i > Len(text)
    THEN [cuts |-> cuts, rest |-> current_chunk]
    ELSE LET char == text[i]
             cc == Append(current_chunk, char)
             lb == IF IsBoundary(char) THEN i - 1 ELSE last_break
         IN  IF Len(cc) > max_length
             THEN IF lb = 0
                  THEN SplitScanHardCutLoses(text, max_length, i + 1,
                                 Append(cuts, [seg |-> cc, at |-> max_length]),
                                 << >>, 0)
                  ELSE SplitScanHardCutLoses(text, max_length, i + 1,
                                 Append(cuts, [seg |-> cc,
                                               at |-> IF lb + 1 < Len(cc)
                                                      THEN lb + 1 ELSE Len(cc)]),
                                 Strip(Drop(cc, lb + 1)), 0)
             ELSE SplitScanHardCutLoses(text, max_length, i + 1, cuts, cc, lb)

\* ---- split_text_naturally ------------------------------------------------
\* One pass of the for-loop, from character i (1-based; the Python index is
\* i - 1).  `cuts` records, for every cut, the pending segment that was cut
\* and the number of its characters that went into the emitted piece; the
\* emitted chunk is the stripped piece.
RECURSIVE SplitScan(_, _, _, _, _, _)
SplitScan(text, max_length, i, cuts, current_chunk, last_break) ==
    IF i > Len(text)
    THEN [cuts |-> cuts, rest |-> current_chunk]
    ELSE LET char == text[i]
             cc == Append(current_chunk, char)
             lb == IF IsBoundary(char) THEN i - 1 ELSE last_break
         IN  IF Len(cc) > max_length
             THEN IF lb = 0
                  THEN SplitScan(text, max_length, i + 1,
                                 Append(cuts, [seg |-> cc, at |-> max_length]),
                                 Drop(cc, max_length), 0)
                  ELSE SplitScan(text, max_length, i + 1,
                                 Append(cuts, [seg |-> cc,
                                               at |-> IF lb + 1 < Len(cc)
                                                      THEN lb + 1 ELSE Len(cc)]),
                                 Strip(Drop(cc, lb + 1)), 0)
             ELSE SplitScan(text, max_length, i + 1, cuts, cc, lb)

\* the cuts made on a text longer than max_length
SplitCuts(text, max_length) ==
    SplitScan(text, max_length, 1, << >>, << >>, 0)

\* split_text_naturally without the final `if current_chunk:` append
split_text_naturally_NoTail(text, max_length) ==
    IF Len(text) <= max_length
    THEN << text >>
    ELSE LET r == SplitCuts(text, max_length)
         IN  [k \in 1..Len(r.cuts) |->
                 Strip(Take(r.cuts[k].seg, r.cuts[k].at))]

\* split_text_naturally stripping the text it returns whole
split_text_naturally_StripShort(text, max_length) ==
    IF Len(text) <= max_length
    THEN << Strip(text) >>
    ELSE LET r == SplitCuts(text, max_length)
             chunks == [k \in 1..Len(r.cuts) |->
                           Strip(Take(r.cuts[k].seg, r.cuts[k].at))]
         IN  IF r.rest # << >> THEN Append(chunks, Strip(r.rest)) ELSE chunks

split_text_naturally(text, max_length) ==
    IF Len(text) <= max_length
    THEN << text >>
    ELSE LET r == SplitCuts(text, max_length)
             chunks == [k \in 1..Len(r.cuts) |->
                           Strip(Take(r.cuts[k].seg, r.cuts[k].at))]
         IN  IF r.rest # << >> THEN Append(chunks, Strip(r.rest)) ELSE chunks

\* ---- state ----------------------------------------------------------------
VARIABLES
    sText,      \* split harness: the text argument
    sMax,       \* split harness: the max_length argument
    sChunks,    \* split harness: the returned list
    sCuts,      \* split harness: the cuts the loop made (segment, position)
    sCalled     \* split harness: split_text_naturally has returned

svars == << sText, sMax, sChunks, sCuts, sCalled >>

VARIABLES
    kind,            \* "text": stream_text_response, "media": stream_response
    pc,              \* position of the routine
    frags,           \* the fragments (chunk.text) the generation call has yielded
    buffer,          \* local `buffer`
    full_response,   \* local `full_response`
    chunks,          \* local `chunks` of the flush in progress
    idx,             \* 1-based position of the for-loop over `chunks`
    message_id,      \* local `message_id` (0: none yet)
    last_sent_text,  \* local `last_sent_text`
    messages,        \* the chat: text shown by each message of the response
    ops,             \* every delivery call made, in order
    genCalls,        \* number of chat_session.send_message(stream=True) calls
    failAt,          \* Len(ops) when the try block failed, -1 before
    saved,           \* save_history has been called
    new_turns        \* the turns the routine appended to `user_history`

rvars == << kind, pc, frags, buffer, full_response, chunks, idx, message_id,
            last_sent_text, messages, ops, genCalls, failAt, saved,
            new_turns >>

VARIABLES
    stored,     \* the history files: user -> list of turns
    stored0,    \* the history files as they were before the first request
    savers,     \* user -> the requests that saved that user's file, in order
    reqs        \* request -> its user, kind, position and locals

hvars == << stored, stored0, savers, reqs >>
vars == << svars, rvars, hvars >>

Users == {"u1", "u2"}
Requests == 1..MaxRequests

\* the state in which no request is being handled
InitHistIdle ==
    /\ stored = [u \in Users |-> << >>]
    /\ stored0 = [u \in Users |-> << >>]
    /\ savers = [u \in Users |-> << >>]
    /\ reqs = << >>

\* ---- one streamed response ------------------------------------------------------
Fragments == Texts(MaxFragLen)

ErrorMsg(k) == IF k = "text" THEN TEXT_ERROR_MSG ELSE MEDIA_ERROR_MSG

\* Outcomes of context.bot.send_message / edit_message_text: the call may
\* always fail (transport), and it cannot succeed with an empty text.
Outcomes(text) == IF text = << >> THEN {FALSE} ELSE {TRUE, FALSE}

EditOp(mid, text, ok) == [op |-> "edit", id |-> mid, text |-> text, ok |-> ok]
SendOp(text, ok) == [op |-> "send", id |-> 0, text |-> text, ok |-> ok]

\* the request's content as passed to the generation call (`current_parts`)
current_parts == "content"

\* the state in which no response is being streamed
InitIdle ==
    /\ kind = "text"
    /\ pc = "idle"
    /\ frags = << >>
    /\ buffer = << >>
    /\ full_response = << >>
    /\ chunks = << >>
    /\ idx = 0
    /\ message_id = 0
    /\ last_sent_text = << >>
    /\ messages = << >>
    /\ ops = << >>
    /\ genCalls = 0
    /\ failAt = -1
    /\ saved = FALSE
    /\ new_turns = << >>

InitStream ==
    /\ kind \in {"text", "media"}
    /\ pc = "start"
    /\ frags = << >>
    /\ buffer = << >>
    /\ full_response = << >>
    /\ chunks = << >>
    /\ idx = 0
    /\ message_id = 0
    /\ last_sent_text = << >>
    /\ messages = << >>
    /\ ops = << >>
    /\ genCalls = 0
    /\ failAt = -1
    /\ saved = FALSE
    /\ new_turns = << >>
    /\ sText = << >>
    /\ sMax = 1
    /\ sChunks = << >>
    /\ sCuts = << >>
    /\ sCalled = FALSE
    /\ InitHistIdle

\* main.py:190-192 (text) and main.py:278-279,294 (media): the placeholder
\* message is sent and becomes the message being edited.
SendPlaceholder ==
    /\ pc = "start"
    /\ LET text == IF kind = "text" THEN TEXT_PROCESSING_MSG
                   ELSE MEDIA_UPLOADING_MSG
       IN  /\ messages' = << text >>
           /\ ops' = Append(ops, SendOp(text, TRUE))
           /\ last_sent_text' = text
    /\ message_id' = 1
    /\ pc' = IF kind = "text" THEN "call" ELSE "upload"
    /\ UNCHANGED << kind, new_turns, frags, buffer, full_response, chunks, idx,
                    genCalls, failAt, saved, svars, hvars >>

\* the placeholder send raises: outside every try block, the exception
\* leaves the routine
SendPlaceholderFails ==
    /\ pc = "start"
    /\ LET text == IF kind = "text" THEN TEXT_PROCESSING_MSG
                   ELSE MEDIA_UPLOADING_MSG
       IN  ops' = Append(ops, SendOp(text, FALSE))
    /\ pc' = "raised"
    /\ UNCHANGED << kind, new_turns, frags, buffer, full_response, chunks, idx,
                    message_id, last_sent_text, messages, genCalls, failAt,
                    saved, svars, hvars >>

\* main.py:281-286: the attachment is written and uploaded
UploadFile ==
    /\ pc = "upload"
    /\ pc' = "processing"
    /\ UNCHANGED << kind, new_turns, frags, buffer, full_response, chunks, idx,
                    message_id, last_sent_text, messages, ops, genCalls,
                    failAt, saved, svars, hvars >>

\* main.py:287-290: the upload fails, the placeholder is edited to the
\* upload notice and the routine returns (or the edit raises)
UploadFileFails ==
    /\ pc = "upload"
    /\ \E ok \in Outcomes(UPLOAD_ERROR_MSG) :
          /\ ops' = Append(ops, EditOp(message_id, UPLOAD_ERROR_MSG, ok))
          /\ messages' = IF ok
                         THEN [messages EXCEPT ![message_id] = UPLOAD_ERROR_MSG]
                         ELSE messages
          /\ pc' = IF ok THEN "done" ELSE "raised"
    /\ UNCHANGED << kind, new_turns, frags, buffer, full_response, chunks, idx,
                    message_id, last_sent_text, genCalls, failAt, saved, svars, hvars >>

\* main.py:296-298: first statement of the media try block
EditProcessing ==
    /\ pc = "processing"
    /\ IF last_sent_text # MEDIA_PROCESSING_MSG
       THEN \E ok \in Outcomes(MEDIA_PROCESSING_MSG) :
              /\ ops' = Append(ops, EditOp(message_id, MEDIA_PROCESSING_MSG, ok))
              /\ messages' = IF ok
                             THEN [messages EXCEPT
                                      ![message_id] = MEDIA_PROCESSING_MSG]
                             ELSE messages
              /\ last_sent_text' = IF ok THEN MEDIA_PROCESSING_MSG
                                   ELSE last_sent_text
              /\ pc' = IF ok THEN "call" ELSE "error"
              /\ failAt' = IF ok THEN failAt ELSE Len(ops')
       ELSE /\ pc' = "call"
            /\ UNCHANGED << ops, messages, last_sent_text, failAt >>
    /\ UNCHANGED << kind, new_turns, frags, buffer, full_response, chunks, idx,
                    message_id, genCalls, saved, svars, hvars >>

\* main.py:198 / 302: chat_session.send_message(current_parts, stream=True)
StartGeneration ==
    /\ pc = "call"
    /\ genCalls' = genCalls + 1
    /\ pc' = "stream"
    /\ UNCHANGED << kind, new_turns, frags, buffer, full_response, chunks, idx,
                    message_id, last_sent_text, messages, ops, failAt, saved,
                    svars, hvars >>

\* the generation call raises at once
StartGenerationFails ==
    /\ pc = "call"
    /\ genCalls' = genCalls + 1
    /\ pc' = "error"
    /\ failAt' = Len(ops)
    /\ UNCHANGED << kind, new_turns, frags, buffer, full_response, chunks, idx,
                    message_id, last_sent_text, messages, ops, saved, svars, hvars >>

\* `full_response += buffer`, preceded in the media routine by the separating
\* space of main.py:309-310 / 327-328
Accumulate(k, full, buf) ==
    IF /\ k = "media"
       /\ full # << >>
       /\ ~IsSpace(full[Len(full)])
       /\ ~IsBoundary(full[Len(full)])
    THEN full \o << " " >> \o buf
    ELSE full \o buf

\* the flush test with the length comparison off by one
MustFlushOffByOne(buf) ==
    Len(buf) >= FlushThreshold - 1 \/ IsFlushChar(buf[Len(buf)])

\* the flush test of main.py:204 / 308
MustFlush(buf) ==
    Len(buf) >= FlushThreshold \/ IsFlushChar(buf[Len(buf)])

\* main.py:199-208 / 303-314: one iteration of `for chunk in response` up to
\* the split; the deliveries of a flush follow one by one.
NextFragment ==
    /\ pc = "stream"
    /\ Len(frags) < MaxFragments
    /\ \E f \in Fragments :
          /\ Len(Concat(frags)) + Len(f) <= MaxStreamLen
          /\ frags' = Append(frags, f)
          /\ LET chunk_text == IF kind = "text" THEN f ELSE Strip(f)
                 buf == buffer \o chunk_text
             IN  IF chunk_text = << >>
                 THEN UNCHANGED << buffer, full_response, chunks, idx, pc >>
                 ELSE IF MustFlush(buf)
                 THEN LET full == Accumulate(kind, full_response, buf)
                      IN  /\ full_response' = full
                          /\ buffer' = << >>
                          /\ chunks' = split_text_naturally(full, MaxLength)
                          /\ idx' = 1
                          /\ pc' = "flush"
                 ELSE /\ buffer' = buf
                      /\ UNCHANGED << full_response, chunks, idx, pc >>
    /\ UNCHANGED << kind, new_turns, message_id, last_sent_text, messages, ops,
                    genCalls, failAt, saved, svars, hvars >>

\* the response iterator raises while being consumed
SourceRaises ==
    /\ pc = "stream"
    /\ pc' = "error"
    /\ failAt' = Len(ops)
    /\ UNCHANGED << kind, new_turns, frags, buffer, full_response, chunks, idx,
                    message_id, last_sent_text, messages, ops, genCalls,
                    saved, svars, hvars >>

\* main.py:220-222 / 326-330: the iterator is exhausted
SourceEnds ==
    /\ pc = "stream"
    /\ IF buffer # << >>
       THEN LET full == Accumulate(kind, full_response, buffer)
            IN  /\ full_response' = full
                /\ chunks' = split_text_naturally(full, MaxLength)
                /\ idx' = 1
                /\ pc' = "final"
       ELSE /\ pc' = IF kind = "text" THEN "save" ELSE "noresponse"
            /\ UNCHANGED << full_response, chunks, idx >>
    /\ UNCHANGED << kind, new_turns, frags, buffer, message_id, last_sent_text,
                    messages, ops, genCalls, failAt, saved, svars, hvars >>

\* where the routine continues after the body of the for-loop over `chunks`
\* has run for position idx (main.py:218 / 324 after the last part of a flush)
AfterPart ==
    IF idx < Len(chunks)
    THEN /\ idx' = idx + 1
         /\ UNCHANGED << pc, full_response >>
    ELSE /\ idx' = 0
         /\ IF pc = "flush"
            THEN /\ pc' = "stream"
                 /\ full_response' = chunks[Len(chunks)]
            ELSE /\ pc' = IF kind = "text" THEN "save" ELSE "noresponse"
                 /\ UNCHANGED full_response

InLoop == pc \in {"flush", "final"} /\ idx >= 1 /\ idx <= Len(chunks)

\* main.py:210-212 (and 224-226, 316-318, 332-334): the first part replaces
\* the text of the current message
EditFirstPart ==
    /\ InLoop
    /\ idx = 1
    /\ chunks[1] # last_sent_text
    /\ TRUE \in Outcomes(chunks[1])
    /\ ops' = Append(ops, EditOp(message_id, chunks[1], TRUE))
    /\ messages' = [messages EXCEPT ![message_id] = chunks[1]]
    /\ last_sent_text' = chunks[1]
    /\ AfterPart
    /\ UNCHANGED << kind, new_turns, frags, buffer, chunks, message_id, genCalls,
                    failAt, saved, svars, hvars >>

EditFirstPartFails ==
    /\ InLoop
    /\ idx = 1
    /\ chunks[1] # last_sent_text
    /\ ops' = Append(ops, EditOp(message_id, chunks[1], FALSE))
    /\ pc' = "error"
    /\ failAt' = Len(ops')
    /\ UNCHANGED << kind, new_turns, frags, buffer, full_response, chunks, idx,
                    message_id, last_sent_text, messages, genCalls, saved,
                    svars, hvars >>

\* the first part is what the message already shows: neither branch of the
\* if/elif runs
SkipFirstPart ==
    /\ InLoop
    /\ idx = 1
    /\ chunks[1] = last_sent_text
    /\ AfterPart
    /\ UNCHANGED << kind, new_turns, frags, buffer, chunks, message_id, last_sent_text,
                    messages, ops, genCalls, failAt, saved, svars, hvars >>

\* a later part is sent but `message_id` keeps the old handle
SendNextPartStaleId ==
    /\ InLoop
    /\ idx > 1
    /\ TRUE \in Outcomes(chunks[idx])
    /\ ops' = Append(ops, SendOp(chunks[idx], TRUE))
    /\ messages' = Append(messages, chunks[idx])
    /\ last_sent_text' = chunks[idx]
    /\ AfterPart
    /\ UNCHANGED << kind, new_turns, frags, buffer, chunks, message_id, genCalls, failAt,
                    saved, svars, hvars >>

\* main.py:213-216 (and 227-230, 319-322, 335-338): every later part is sent
\* as a new message, which becomes the current one
SendNextPart ==
    /\ InLoop
    /\ idx > 1
    /\ TRUE \in Outcomes(chunks[idx])
    /\ ops' = Append(ops, SendOp(chunks[idx], TRUE))
    /\ messages' = Append(messages, chunks[idx])
    /\ message_id' = Len(messages) + 1
    /\ last_sent_text' = chunks[idx]
    /\ AfterPart
    /\ UNCHANGED << kind, new_turns, frags, buffer, chunks, genCalls, failAt, saved,
                    svars, hvars >>

SendNextPartFails ==
    /\ InLoop
    /\ idx > 1
    /\ ops' = Append(ops, SendOp(chunks[idx], FALSE))
    /\ pc' = "error"
    /\ failAt' = Len(ops')
    /\ UNCHANGED << kind, new_turns, frags, buffer, full_response, chunks, idx,
                    message_id, last_sent_text, messages, genCalls, saved,
                    svars, hvars >>

\* main.py:341-342: the media routine reports an empty reply
NoResponseNotice ==
    /\ pc = "noresponse"
    /\ IF full_response = << >> /\ last_sent_text # NO_RESPONSE_MSG
       THEN \E ok \in Outcomes(NO_RESPONSE_MSG) :
              /\ ops' = Append(ops, EditOp(message_id, NO_RESPONSE_MSG, ok))
              /\ messages' = IF ok
                             THEN [messages EXCEPT ![message_id] = NO_RESPONSE_MSG]
                             ELSE messages
              /\ pc' = IF ok THEN "save" ELSE "error"
              /\ failAt' = IF ok THEN failAt ELSE Len(ops')
       ELSE /\ pc' = "save"
            /\ UNCHANGED << ops, messages, failAt >>
    /\ UNCHANGED << kind, new_turns, frags, buffer, full_response, chunks, idx,
                    message_id, last_sent_text, genCalls, saved, svars, hvars >>

\* main.py:233-238 / 344-349: the two turns are appended and the history saved
SaveHistory ==
    /\ pc = "save"
    /\ new_turns' = << [role |-> "user", parts |-> << current_parts >>],
                       [role |-> "model", parts |-> << full_response >>] >>
    /\ saved' = TRUE
    /\ pc' = "done"
    /\ UNCHANGED << kind, frags, buffer, full_response, chunks, idx,
                    message_id, last_sent_text, messages, ops, genCalls,
                    failAt, svars, hvars >>

\* the except block without the `last_sent_text != ..._ERROR_MSG` test
ErrorNoticeUnguarded ==
    /\ pc = "error"
    /\ \E ok \in Outcomes(ErrorMsg(kind)) :
          /\ ops' = Append(ops, EditOp(message_id, ErrorMsg(kind), ok))
          /\ messages' = IF ok
                         THEN [messages EXCEPT ![message_id] = ErrorMsg(kind)]
                         ELSE messages
          /\ pc' = IF ok THEN "done" ELSE "raised"
    /\ UNCHANGED << kind, new_turns, frags, buffer, full_response, chunks, idx,
                    message_id, last_sent_text, genCalls, failAt, saved, svars, hvars >>

\* main.py:240-243 / 351-354: the except block
ErrorNotice ==
    /\ pc = "error"
    /\ IF last_sent_text # ErrorMsg(kind)
       THEN \E ok \in Outcomes(ErrorMsg(kind)) :
              /\ ops' = Append(ops, EditOp(message_id, ErrorMsg(kind), ok))
              /\ messages' = IF ok
                             THEN [messages EXCEPT ![message_id] = ErrorMsg(kind)]
                             ELSE messages
              /\ pc' = IF ok THEN "done" ELSE "raised"
       ELSE /\ pc' = "done"
            /\ UNCHANGED << ops, messages >>
    /\ UNCHANGED << kind, new_turns, frags, buffer, full_response, chunks, idx,
                    message_id, last_sent_text, genCalls, failAt, saved, svars, hvars >>

Next ==
    \/ SendPlaceholder
    \/ SendPlaceholderFails
    \/ UploadFile
    \/ UploadFileFails
    \/ EditProcessing
    \/ StartGeneration
    \/ StartGenerationFails
    \/ NextFragment
    \/ SourceRaises
    \/ SourceEnds
    \/ EditFirstPart
    \/ EditFirstPartFails
    \/ SkipFirstPart
    \/ SendNextPart
    \/ SendNextPartFails
    \/ NoResponseNotice
    \/ SaveHistory
    \/ ErrorNotice

Spec == InitStream /\ [][Next]_vars

\* ---- requests and the history files ----------------------------------------------
\* One request runs stream_text_response or stream_response from its first
\* line to its return; the streaming loop, modelled step by step in Spec, is
\* here one step that either completes with every delivery made or fails.

\* history[:n] in place of history[-n:]
LastNKeepsOldest(history, n) ==
    IF Len(history) > n THEN SubSeq(history, 1, n) ELSE history

\* history[-n:] for n >= 1
LastN(history, n) ==
    IF Len(history) > n
    THEN SubSeq(history, Len(history) - n + 1, Len(history))
    ELSE history

\* the two turns a request appends: the user's content, then the reply
TurnsOf(r, u) ==
    << [role |-> "user", user |-> u, seq |-> r],
       [role |-> "model", user |-> u, seq |-> r] >>

\* a history file written by k earlier turns of user u
OldHistory(u, k) ==
    [j \in 1..k |-> [role |-> IF j % 2 = 1 THEN "user" ELSE "model",
                     user |-> u, seq |-> j - k - 1]]

InitHist ==
    /\ stored0 \in [Users -> {OldHistory(u, k) :
                                u \in Users,
                                k \in {0, MAX_HISTORY - 2, MAX_HISTORY}}]
    /\ \A u \in Users : \A j \in 1..Len(stored0[u]) : stored0[u][j].user = u
    /\ stored = stored0
    /\ savers = [u \in Users |-> << >>]
    /\ reqs \in [Requests -> [user : Users, kind : {"text", "media"},
                               pc : {"init"}, user_history : {<< >>},
                               loads : {0}, saves : {0}, gens : {0},
                               seen : {0}, failure : {"none"}]]
    /\ InitIdle
    /\ sText = << >>
    /\ sMax = 1
    /\ sChunks = << >>
    /\ sCuts = << >>
    /\ sCalled = FALSE

Move(r, to) == reqs' = [reqs EXCEPT ![r].pc = to]

Fail(r, why) == reqs' = [reqs EXCEPT ![r].pc = "failed", ![r].failure = why]

Frame == UNCHANGED << stored, stored0, savers, svars, rvars >>

\* main.py:170-172 / 249-251: genai.GenerativeModel(...)
ReqInitModel(r) ==
    /\ reqs[r].pc = "init"
    /\ Move(r, "load")
    /\ Frame

\* main.py:173-176 / 252-255: model initialisation fails, a message is sent
\* and the routine returns
ReqInitModelFails(r) ==
    /\ reqs[r].pc = "init"
    /\ Fail(r, "model")
    /\ Frame

\* main.py:178 / 257: user_history = load_history(username)
ReqLoadHistory(r) ==
    /\ reqs[r].pc = "load"
    /\ reqs' = [reqs EXCEPT ![r].pc = "chat",
                            ![r].user_history = stored[reqs[r].user],
                            ![r].loads = @ + 1,
                            ![r].seen = Len(savers[reqs[r].user])]
    /\ Frame

\* main.py:181-182 / 260-261: model.start_chat(history=user_history)
ReqStartChat(r) ==
    /\ reqs[r].pc = "chat"
    /\ Move(r, "prepare")
    /\ Frame

\* main.py:183-186 / 262-265
ReqStartChatFails(r) ==
    /\ reqs[r].pc = "chat"
    /\ Fail(r, "chat")
    /\ Frame

\* main.py:188-192 (placeholder sent) / 267-294 (attachment uploaded)
ReqPrepare(r) ==
    /\ reqs[r].pc = "prepare"
    /\ Move(r, "call")
    /\ Frame

\* main.py:287-290: the upload fails and the routine returns; or the
\* placeholder send raises (main.py:190 / 278)
ReqPrepareFails(r) ==
    /\ reqs[r].pc = "prepare"
    /\ Fail(r, IF reqs[r].kind = "media" THEN "upload" ELSE "delivery")
    /\ Frame

\* main.py:198 / 302: the generation call
ReqGenerate(r) ==
    /\ reqs[r].pc = "call"
    /\ reqs' = [reqs EXCEPT ![r].pc = "stream", ![r].gens = @ + 1]
    /\ Frame

\* the generation call raises: main.py:240-243 / 351-354
ReqGenerateFails(r) ==
    /\ reqs[r].pc = "call"
    /\ reqs' = [reqs EXCEPT ![r].pc = "failed", ![r].gens = @ + 1,
                            ![r].failure = "generation"]
    /\ Frame

\* main.py:199-231 / 303-342: every fragment consumed, every delivery made
ReqStreamCompletes(r) ==
    /\ reqs[r].pc = "stream"
    /\ Move(r, "save")
    /\ Frame

\* the failure path with the save moved into it (as in a `finally`)
ReqStreamFailsSaves(r) ==
    /\ reqs[r].pc = "stream"
    /\ LET u == reqs[r].user
           user_history == LastN(reqs[r].user_history \o TurnsOf(r, u),
                                 MAX_HISTORY)
       IN  /\ \E why \in {"generation", "delivery"} :
                 reqs' = [reqs EXCEPT ![r].pc = "failed",
                                      ![r].failure = why,
                                      ![r].user_history = user_history,
                                      ![r].saves = @ + 1]
           /\ stored' = [stored EXCEPT ![u] = user_history]
           /\ savers' = [savers EXCEPT ![u] = Append(@, r)]
    /\ UNCHANGED << stored0, svars, rvars >>

\* the fragment source raises or a delivery call fails: main.py:240-243 /
\* 351-354
ReqStreamFails(r) ==
    /\ reqs[r].pc = "stream"
    /\ \E why \in {"generation", "delivery"} : Fail(r, why)
    /\ Frame

\* the save appending to the file as it is now, not as it was loaded
ReqSaveHistoryReloads(r) ==
    /\ reqs[r].pc = "save"
    /\ LET u == reqs[r].user
           user_history == LastN(stored[u] \o TurnsOf(r, u), MAX_HISTORY)
       IN  /\ reqs' = [reqs EXCEPT ![r].pc = "done",
                                   ![r].user_history = user_history,
                                   ![r].saves = @ + 1]
           /\ stored' = [stored EXCEPT ![u] = user_history]
           /\ savers' = [savers EXCEPT ![u] = Append(@, r)]
    /\ UNCHANGED << stored0, svars, rvars >>

\* main.py:233-237 / 344-348: append the two turns, cap, save_history
ReqSaveHistory(r) ==
    /\ reqs[r].pc = "save"
    /\ LET u == reqs[r].user
           user_history == LastN(reqs[r].user_history \o TurnsOf(r, u),
                                 MAX_HISTORY)
       IN  /\ reqs' = [reqs EXCEPT ![r].pc = "done",
                                   ![r].user_history = user_history,
                                   ![r].saves = @ + 1]
           /\ stored' = [stored EXCEPT ![u] = user_history]
           /\ savers' = [savers EXCEPT ![u] = Append(@, r)]
    /\ UNCHANGED << stored0, svars, rvars >>

NextHist ==
    \E r \in Requests :
        \/ ReqInitModel(r)
        \/ ReqInitModelFails(r)
        \/ ReqLoadHistory(r)
        \/ ReqStartChat(r)
        \/ ReqStartChatFails(r)
        \/ ReqPrepare(r)
        \/ ReqPrepareFails(r)
        \/ ReqGenerate(r)
        \/ ReqGenerateFails(r)
        \/ ReqStreamCompletes(r)
        \/ ReqStreamFails(r)
        \/ ReqSaveHistory(r)

SpecHist == InitHist /\ [][NextHist]_vars

\* ---- the splitter on its own -----------------------------------------------
InitSplit ==
    /\ sText \in Texts(MaxTextLen)
    /\ sMax \in 1..MaxMaxLength
    /\ sChunks = << >>
    /\ sCuts = << >>
    /\ sCalled = FALSE
    /\ InitIdle
    /\ InitHistIdle

CallSplit ==
    /\ ~sCalled
    /\ sChunks' = split_text_naturally(sText, sMax)
    /\ sCuts' = IF Len(sText) <= sMax THEN << >>
                ELSE SplitCuts(sText, sMax).cuts
    /\ sCalled' = TRUE
    /\ UNCHANGED << sText, sMax >>
    /\ UNCHANGED << rvars, hvars >>

NextSplit == CallSplit

SpecSplit == InitSplit /\ [][NextSplit]_vars

\* ---- helpers of the properties ------------------------------------------------
\* the non-whitespace characters of a text, in order
RECURSIVE NonWs(_)
NonWs(s) ==
    IF s = << >> THEN << >>
    ELSE IF IsSpace(s[1]) THEN NonWs(Tail(s)) ELSE << s[1] >> \o NonWs(Tail(s))

AllSpace(s) == \A j \in 1..Len(s) : IsSpace(s[j])

IsPrefix(p, s) == Len(p) <= Len(s) /\ SubSeq(s, 1, Len(p)) = p

\* full = w0 \o msgs[k] \o w1 \o msgs[k+1] \o ... \o wn with every w whitespace
\* only: the pieces are contiguous substrings of full, in order, and what
\* lies between them is whitespace.
RECURSIVE Covers(_, _, _)
Covers(full, msgs, k) ==
    IF k > Len(msgs) THEN AllSpace(full)
    ELSE \E j \in 0..Len(full) :
            /\ AllSpace(Take(full, j))
            /\ IsPrefix(msgs[k], Drop(full, j))
            /\ Covers(Drop(full, j + Len(msgs[k])), msgs, k + 1)

HasBoundary(s) == \E j \in 1..Len(s) : IsBoundary(s[j])

\* position (1-based) of the last boundary character of s, 0 if none
LastBoundary(s) ==
    IF HasBoundary(s)
    THEN CHOOSE j \in 1..Len(s) :
            IsBoundary(s[j]) /\ \A m \in (j + 1)..Len(s) : ~IsBoundary(s[m])
    ELSE 0

\* ---- claims about split_text_naturally (checked under SpecSplit) ---------------

\* C1: every chunk returned by split_text_naturally(text, max_length) has at
\* most max_length characters, for every text and every max_length >= 1.
C1_ChunkWithinMaxLength ==
    sCalled => \A k \in 1..Len(sChunks) : Len(sChunks[k]) <= sMax

\* C5: on a text longer than max_length every cut falls immediately after the
\* most recent boundary character of the segment being cut, whenever that
\* segment contains one.
C5_CutAfterLastBoundary ==
    sCalled =>
        \A k \in 1..Len(sCuts) :
            HasBoundary(sCuts[k].seg) =>
                sCuts[k].at = LastBoundary(sCuts[k].seg)

\* C6: the chunks hold every non-whitespace character of s once and in order,
\* and s is the chunks in order with nothing but whitespace before, between
\* and after them (whitespace changes at the cut points and the ends only).
C6_ChunksReconstructText ==
    sCalled =>
        /\ NonWs(Concat(sChunks)) = NonWs(sText)
        /\ Covers(sText, sChunks, 1)

C6_Witness ==
    /\ sCalled
    /\ Len(sText) > sMax
    /\ Len(sChunks) >= 3
    /\ \E j \in 2..(Len(sText) - 1) : IsSpace(sText[j])
    /\ Concat(sChunks) # sText

\* C7 as stated: a text of at most max_length characters comes back as the
\* one-element list holding the trimmed text.
C7_ShortTextTrimmed ==
    (sCalled /\ Len(sText) <= sMax) => sChunks = << Strip(sText) >>

\* C7 amended: a text of at most max_length characters comes back as the
\* one-element list holding the text itself, whitespace included.
C7_ShortTextUnchanged ==
    (sCalled /\ Len(sText) <= sMax) => sChunks = << sText >>

C7_Witness ==
    /\ sCalled
    /\ Len(sText) <= sMax
    /\ Len(sText) >= 2
    /\ IsSpace(sText[1])
    /\ sChunks = << sText >>

\* C8: a text longer than max_length without any boundary character is cut
\* at max_length each time: all chunks but the last have max_length characters,
\* the last holds the remainder, and the chunks concatenate to the text.
C8_HardCutAtMaxLength ==
    (sCalled /\ Len(sText) > sMax /\ ~HasBoundary(sText)) =>
        LET n == Len(sChunks) IN
        /\ n >= 2
        /\ \A k \in 1..(n - 1) : Len(sChunks[k]) = sMax
        /\ Len(sChunks[n]) = Len(sText) - (n - 1) * sMax
        /\ Len(sChunks[n]) \in 1..sMax
        /\ Concat(sChunks) = sText

C8_Witness ==
    /\ sCalled
    /\ ~HasBoundary(sText)
    /\ Len(sChunks) = 3
    /\ Len(sChunks[3]) < sMax


\* ---- claims about the streaming routines (checked under Spec) ------------------

\* the whole reply the generation call has produced so far
Generated == Concat(frags)

\* the routine has returned after a run in which nothing failed
CompletedNormally == pc = "done" /\ saved /\ failAt = -1

\* C2: after stream_text_response has delivered a non-empty reply without any
\* failure, the texts the messages finally show, in creation order, are the
\* reply: the same non-whitespace characters in the same order, each message a
\* contiguous piece of the reply, and only whitespace between the pieces.
C2_MessagesReconstructReply ==
    (kind = "text" /\ CompletedNormally /\ Generated # << >>) =>
        /\ NonWs(Concat(messages)) = NonWs(Generated)
        /\ Covers(Generated, messages, 1)

\* C3 as stated: once the try block has failed (the source raised or a
\* delivery call failed), the routine ends having made exactly one more
\* delivery call, an edit of the current message to the error notice, and the
\* generation call was issued at most once.
C3_ExactlyOneErrorEdit ==
    (failAt >= 0 /\ pc \in {"done", "raised"}) =>
        /\ Len(ops) = failAt + 1
        /\ ops[Len(ops)].op = "edit"
        /\ ops[Len(ops)].id = message_id
        /\ ops[Len(ops)].text = ErrorMsg(kind)
        /\ genCalls <= 1

\* C3 amended: once the try block has failed, nothing is saved, generation is
\* not issued again, and the only delivery call that can follow is one edit of
\* the current message to the error notice; the routine ends having made that
\* edit exactly when the text last displayed is not already the error notice,
\* and having made no delivery call at all when it is.
C3_AtMostOneErrorEdit ==
    failAt >= 0 =>
        /\ pc \in {"error", "done", "raised"}
        /\ ~saved
        /\ genCalls <= 1
        /\ Len(ops) \in {failAt, failAt + 1}
        /\ Len(ops) = failAt + 1 =>
              /\ pc # "error"
              /\ ops[Len(ops)].op = "edit"
              /\ ops[Len(ops)].id = message_id
              /\ ops[Len(ops)].text = ErrorMsg(kind)
        /\ pc \in {"done", "raised"} =>
              (Len(ops) = failAt + 1 <=> last_sent_text # ErrorMsg(kind))

C3_Witness ==
    /\ pc = "done"
    /\ failAt >= 3
    /\ Len(messages) >= 2
    /\ Len(ops) = failAt + 1
    /\ ops[Len(ops)] = EditOp(message_id, ErrorMsg(kind), TRUE)
    /\ messages[message_id] = ErrorMsg(kind)

\* number of messages of the response that exist before delivery call k
SentBefore(k) ==
    Cardinality({j \in 1..(k - 1) : ops[j].op = "send" /\ ops[j].ok})

\* C4: every edit of a response targets the message sent last (the
\* placeholder until a later chunk is sent); each sent message becomes the
\* edit target, so a superseded message is never edited again.
C4_EditsTargetLatestMessage ==
    /\ message_id = Len(messages)
    /\ \A k \in 1..Len(ops) :
          ops[k].op = "edit" => ops[k].id = SentBefore(k)

C4_Witness ==
    /\ Len(messages) >= 2
    /\ \E k \in 1..Len(ops) :
          /\ ops[k].op = "edit" /\ ops[k].ok /\ ops[k].id = 1
          /\ \E m \in (k + 1)..Len(ops) :
                ops[m].op = "edit" /\ ops[m].ok /\ ops[m].id = 2

\* the reply so far, after each fragment, stayed below the flush threshold
BelowThreshold ==
    \A n \in 1..Len(frags) : Len(Concat(SubSeq(frags, 1, n))) < FlushThreshold

\* no non-empty fragment left the reply ending in a flush character
NoBoundaryFlush ==
    \A n \in 1..Len(frags) :
        frags[n] # << >> => ~IsFlushChar(frags[n][Len(frags[n])])

PlaceholderOnly == ops = << SendOp(TEXT_PROCESSING_MSG, TRUE) >>

\* C9 as stated: when the reply never reaches the flush threshold, the text
\* routine makes no delivery call while fragments arrive, and ends with
\* exactly one edit, carrying the whole reply, and no send.
C9_SingleEditBelowThreshold ==
    (/\ kind = "text"
     /\ BelowThreshold
     /\ Generated # << >>
     /\ Generated # TEXT_PROCESSING_MSG) =>
        /\ pc = "stream" => PlaceholderOnly
        /\ CompletedNormally =>
              ops = << SendOp(TEXT_PROCESSING_MSG, TRUE),
                       EditOp(1, Generated, TRUE) >>

\* C9 amended: when the reply never reaches the flush threshold and no
\* fragment ends in a flush character (space or punctuation), the text routine
\* makes no delivery call while fragments arrive; it ends, if nothing fails
\* and the reply is neither empty nor the placeholder text, with exactly one
\* edit, carrying the whole reply untrimmed, and no send.
C9_SingleEditWithoutFlush ==
    (/\ kind = "text"
     /\ BelowThreshold
     /\ NoBoundaryFlush) =>
        /\ pc = "stream" => (PlaceholderOnly /\ buffer = Generated)
        /\ (/\ CompletedNormally
            /\ Generated # << >>
            /\ Generated # TEXT_PROCESSING_MSG) =>
              ops = << SendOp(TEXT_PROCESSING_MSG, TRUE),
                       EditOp(1, Generated, TRUE) >>

C9_Witness ==
    /\ kind = "text"
    /\ CompletedNormally
    /\ BelowThreshold
    /\ NoBoundaryFlush
    /\ Len(frags) = 2
    /\ frags[1] # << >>
    /\ frags[2] # << >>
    /\ ops = << SendOp(TEXT_PROCESSING_MSG, TRUE), EditOp(1, Generated, TRUE) >>

\* C10: the routine never makes a delivery call with an empty text (an empty
\* buffer or a zero-length chunk is skipped), so such a case never takes it
\* into the error path.
C10_NoEmptyDelivery ==
    \A k \in 1..Len(ops) : ops[k].text # << >>


\* C14: after a text request has completed, the routine has appended exactly
\* two turns, the user's content and then a model turn holding the complete
\* generated reply (all fragments in order).
C14_ModelTurnHoldsWholeReply ==
    (kind = "text" /\ CompletedNormally) =>
        new_turns = << [role |-> "user", parts |-> << current_parts >>],
                       [role |-> "model", parts |-> << Generated >>] >>

\* C15: when stream_text_response returns, the placeholder message shows the
\* error notice or text of the reply, never the placeholder text left over.
C15_PlaceholderReplaced ==
    (kind = "text" /\ pc = "done") =>
        \/ messages[1] = TEXT_ERROR_MSG
        \/ /\ Generated # << >>
           /\ IsPrefix(NonWs(messages[1]), NonWs(Generated))

\* ---- claims about the history files (checked under SpecHist) -------------------

\* position of request r in the list of savers of user u, 0 if it did not save
SavePos(u, r) ==
    IF \E i \in 1..Len(savers[u]) : savers[u][i] = r
    THEN CHOOSE i \in 1..Len(savers[u]) : savers[u][i] = r
    ELSE 0

\* every request that saved u's file had loaded it after the previous save
Sequential(u) ==
    \A i \in 1..Len(savers[u]) : reqs[savers[u][i]].seen = i - 1

RECURSIVE TurnsOfAll(_, _)
TurnsOfAll(u, rs) ==
    IF rs = << >> THEN << >> ELSE TurnsOf(rs[1], u) \o TurnsOfAll(u, Tail(rs))

\* every turn of user u: the old ones, then those of the requests that saved
AllTurns(u) == stored0[u] \o TurnsOfAll(u, savers[u])

\* C11: a stored history never holds more than MAX_HISTORY turns, and after
\* requests that completed one after the other it is exactly the most recent
\* turns of the user in their original order (the oldest are dropped).
C11_HistoryHoldsMostRecentTurns ==
    \A u \in Users :
        /\ Len(stored[u]) <= MAX_HISTORY
        /\ Sequential(u) =>
              LET all == AllTurns(u)
                  n == Len(stored[u])
              IN  /\ n = (IF Len(all) > MAX_HISTORY THEN MAX_HISTORY ELSE Len(all))
                  /\ stored[u] = SubSeq(all, Len(all) - n + 1, Len(all))

C11_Witness ==
    \E u \in Users :
        /\ Len(savers[u]) = 2
        /\ Sequential(u)
        /\ Len(stored0[u]) = MAX_HISTORY - 2
        /\ Len(stored[u]) = MAX_HISTORY
        /\ stored[u][1] = stored0[u][3]

Finished(r) == reqs[r].pc \in {"done", "failed"}

\* C12 as stated: every request loads the history exactly once, saves at most
\* once, and never saves when it ends in a failure.
C12_LoadsExactlyOnce ==
    \A r \in Requests :
        Finished(r) =>
            /\ reqs[r].loads = 1
            /\ reqs[r].saves <= 1
            /\ reqs[r].pc = "failed" => reqs[r].saves = 0

\* C12 amended: a request loads the history at most once, and exactly once
\* before the generation call unless its model initialisation failed (then it
\* returns without loading); it saves at most once, only when it completed
\* without any failure, and a request that failed never wrote the file.
C12_LoadsOnceUnlessInitFails ==
    \A r \in Requests :
        LET q == reqs[r] IN
        /\ q.loads <= 1
        /\ q.saves <= 1
        /\ q.loads = 0 <=> (q.pc \in {"init", "load"} \/ q.failure = "model")
        /\ q.gens >= 1 => q.loads = 1
        /\ q.gens <= 1
        /\ q.saves = 1 <=> q.pc = "done"
        /\ q.pc = "done" => (q.failure = "none" /\ q.gens = 1)
        /\ q.pc = "failed" => (q.failure # "none" /\ SavePos(q.user, r) = 0)
        /\ savers[q.user] = << >> => stored[q.user] = stored0[q.user]

C12_Witness ==
    \E r \in Requests :
        /\ reqs[r].pc = "failed"
        /\ reqs[r].failure = "delivery"
        /\ reqs[r].loads = 1
        /\ reqs[r].gens = 1
        /\ reqs[r].user_history # << >>
        /\ stored[reqs[r].user] = stored0[reqs[r].user]
        /\ \A q \in Requests : Finished(q)

HoldsTurnOf(u, r) ==
    \E j \in 1..Len(stored[u]) : stored[u][j].seq = r

\* r1 and r2, of user u, both loaded before either saved; r1 saved first and
\* r2 made the latest save of u's file
LostUpdate(u, r1, r2) ==
    /\ r1 # r2
    /\ reqs[r1].user = u
    /\ reqs[r2].user = u
    /\ SavePos(u, r1) >= 1
    /\ SavePos(u, r2) = Len(savers[u])
    /\ SavePos(u, r1) < SavePos(u, r2)
    /\ reqs[r2].seen < SavePos(u, r1)

\* C13: when two requests of a user both load before either saves, the file
\* left by the later save holds the two turns of the later saver and none of
\* the earlier saver; a user's file only ever holds that user's turns and is
\* only written by that user's requests.
C13_LaterSaveOverwrites ==
    /\ \A u \in Users : \A r1, r2 \in Requests :
          LostUpdate(u, r1, r2) =>
              /\ ~HoldsTurnOf(u, r1)
              /\ Len(stored[u]) >= 2
              /\ SubSeq(stored[u], Len(stored[u]) - 1, Len(stored[u]))
                    = TurnsOf(r2, u)
    /\ \A u \in Users :
          /\ \A j \in 1..Len(stored[u]) : stored[u][j].user = u
          /\ \A i \in 1..Len(savers[u]) : reqs[savers[u][i]].user = u

C13_Witness ==
    \E u \in Users : \E r1, r2 \in Requests :
        /\ LostUpdate(u, r1, r2)
        /\ stored0[u] # << >>
        /\ ~HoldsTurnOf(u, r1)
        /\ HoldsTurnOf(u, r2)

====
